---- MODULE Spec2Model ----
(***************************************************************************)
(* simple-rust-backup (src/src/main.rs): a one-way differential backup.    *)
(* main() checks the two roots, enumerates the regular files under the     *)
(* source root, copies every file whose target is missing or older, and,   *)
(* with --delete, purge_orphans() removes target entries that have no      *)
(* counterpart under the source root, deepest first.                       *)
(*                                                                         *)
(* The file system is one map from absolute paths (sequences of names) to  *)
(* nodes, so that a root lying inside the other root is the same map seen  *)
(* from two places.  File contents are sequences of chunks, one chunk per  *)
(* pass of the 8 KiB read/write loop.  Every fallible call of the code may *)
(* fail: the failing call of a step is an input of the step.               *)
(***************************************************************************)
EXTENDS Integers, Sequences, FiniteSets, TLC

\* ---------------------------------------------------------------- bounds
\* Largest clock value and largest initial modification time.
MaxTime == 2
\* Number of runs of the program on the same arguments.
MaxRuns == 2
\* Number of failing file-system calls in one behaviour.
MaxFaults == 1

VARIABLES
    fs,         \* the file system: absolute path -> node
    now,        \* the clock that stamps written files
    src,        \* args.source_dir
    tgt,        \* args.target_dir
    delete,     \* args.delete
    pc,         \* position of main(): start, copy, purge, done, aborted
    phases,     \* the phases the current run has entered, in order
    files,      \* files_to_process still to be handled by the copy loop
    entries,    \* entries still to be handled by the purge loop
    cands,      \* purge_orphans: the sorted list `entries` as the loop starts
    len,        \* length of the overall progress bar
    pos,        \* position of the overall progress bar
    deleted,    \* purge_orphans: the list `deleted`
    log,        \* lines written to stderr: <<kind, path>>
    errs,       \* errors that occurred: <<kind, path>>
    run,        \* number of the current run
    faults,     \* failed calls so far
    fs0,        \* the file system when the current run started
    copyLog,    \* per file handled by the copy loop: what was decided and done
    prevLog,    \* copyLog of the run before
    purgeLog    \* per entry handled by the purge loop: what was decided and done

vars == <<fs, now, src, tgt, delete, pc, phases, files, entries, cands, len, pos, deleted,
          log, errs, run, faults, fs0, copyLog, prevLog, purgeLog>>

\* ------------------------------------------------------------------ paths
\* Names in directory order; a walk lists siblings in this order or reversed.
NameSeq == <<"d", "s", "t", "x", "y">>

Rank(n) == CHOOSE i \in 1..Len(NameSeq) : NameSeq[i] = n

\* The two orders in which a directory listing may return its entries.
SiblingOrders == {"asc", "desc"}

Before(ord, a, b) == IF ord = "asc" THEN Rank(a) < Rank(b) ELSE Rank(a) > Rank(b)

\* Path::parent
Parent(p) == SubSeq(p, 1, Len(p) - 1)

\* Path::starts_with
IsPrefix(r, p) == Len(r) <= Len(p) /\ SubSeq(p, 1, Len(r)) = r

\* Path::strip_prefix, where it is Ok
StripPrefix(p, r) == SubSeq(p, Len(r) + 1, Len(p))

\* Path::join
Join(r, rel) == r \o rel

\* The prefixes of p, p included, the empty path excluded.
Ancestors(p) == { SubSeq(p, 1, i) : i \in 1..Len(p) }

\* ------------------------------------------------------------ file system
Dir(t) == [kind |-> "dir", content |-> <<>>, mtime |-> t]

File(c, t) == [kind |-> "file", content |-> c, mtime |-> t]

\* The nodes below are read without a failure of the call.
Exists(f, p) == p \in DOMAIN f

IsDir(f, p) == p \in DOMAIN f /\ f[p].kind = "dir"

IsFile(f, p) == p \in DOMAIN f /\ f[p].kind = "file"

Children(f, p) == { q \in DOMAIN f : Len(q) = Len(p) + 1 /\ IsPrefix(p, q) }

\* f with path p bound to node n (added or replaced).
Put(f, p, n) == [q \in DOMAIN f \cup {p} |-> IF q = p THEN n ELSE f[q]]

\* f with path p removed.
Drop(f, p) == [q \in DOMAIN f \ {p} |-> f[q]]

\* A directory's mtime changes when an entry is added to or removed from it.
Touch(f, p, t) == IF p \in DOMAIN f THEN [f EXCEPT ![p].mtime = t] ELSE f


\* ------------------------------------------------------------------ walks
Depth(p, root) == Len(p) - Len(root)

RECURSIVE WalkFrom(_, _, _, _)
RECURSIVE WalkKids(_, _, _, _)
\* WalkDir below p: p itself, then each child's subtree, parents first.  A
\* directory of `bad` cannot be listed: it is yielded, its content is not, and
\* the walk yields an Err item in its place.
WalkFrom(f, p, ord, bad) ==
    <<p>> \o (IF IsDir(f, p) /\ p \notin bad
              THEN WalkKids(f, Children(f, p), ord, bad)
              ELSE <<>>)

WalkKids(f, kids, ord, bad) ==
    IF kids = {} THEN <<>>
    ELSE LET k == CHOOSE c \in kids :
                    \A o \in kids \ {c} : Before(ord, c[Len(c)], o[Len(o)])
         IN  WalkFrom(f, k, ord, bad) \o WalkKids(f, kids \ {k}, ord, bad)

\* WalkDir::new(root): the Ok items, in the order yielded.
WalkDir(f, root, ord, bad) == WalkFrom(f, root, ord, bad)

Range(seq) == { seq[i] : i \in 1..Len(seq) }

\* The Err items of that walk: the unlistable directories it came to.
WalkErrors(f, root, ord, bad) ==
    { p \in bad : p \in Range(WalkDir(f, root, ord, bad)) /\ IsDir(f, p) }

\* The directories a walk of root may fail to list.
Listable(f, root) == { p \in DOMAIN f : IsPrefix(root, p) /\ IsDir(f, p) }

\* main, lines 56-68: the regular files of the source walk.
CollectFiles(f, ord, bad) ==
    SelectSeq(WalkDir(f, src, ord, bad), LAMBDA p : IsFile(f, p))

\* ---------------------------------------------------------- create_dir_all
MissingDirs(f, p) == { q \in Ancestors(p) : q \notin DOMAIN f }

\* fs::create_dir_all(p) at time t.  k < 0: no call fails.  k >= 0: the mkdir
\* after the first k created directories fails.  An ancestor that is a file
\* makes the first mkdir fail with nothing created.
CreateDirAll(f, p, t, k) ==
    LET miss    == MissingDirs(f, p)
        n       == Cardinality(miss)
        blocked == \E q \in Ancestors(p) : IsFile(f, q)
        made    == IF blocked THEN {}
                   ELSE IF k < 0 THEN miss
                   ELSE { q \in miss : Len(q) <= Len(p) - n + k }
        top     == IF made = {} THEN <<>>
                   ELSE CHOOSE q \in made : \A o \in made : Len(q) <= Len(o)
        f1      == IF made = {} THEN f ELSE Touch(f, Parent(top), t)
    IN  [ok |-> ~blocked /\ k < 0,
         fs |-> [q \in DOMAIN f1 \cup made |->
                    IF q \in made THEN Dir(t) ELSE f1[q]]]

\* The values of k a failing create_dir_all(p) can take.
MkdirFailPoints(f, p) ==
    LET n == Cardinality(MissingDirs(f, p))
    IN  0..(IF n > 0 THEN n - 1 ELSE 0)

\* ------------------------------------------------------ copy_with_progress
\* Mutant of Written: the loop ends before it writes the last chunk.
WrittenNoLast(c, fp, k) ==
    IF c = <<>> THEN c ELSE SubSeq(c, 1, Len(c) - 1)

\* The chunks the loop of lines 196-204 has written when it ends: all of
\* them, or the first k (of at most Len(c)) when a read or a write fails.
Written(c, fp, k) ==
    IF fp \in {"read", "write"} /\ k < Len(c) THEN SubSeq(c, 1, k) ELSE c

\* copy_with_progress(s, d) at time t; fp names the call that fails ("none":
\* no call), k the chunks written before a failing read or write.
\* File::create truncates d before the first read of s.
CopyWithProgress(f, s, d, t, fp, k) ==
    IF fp = "meta" \/ ~Exists(f, s)
    THEN [ok |-> FALSE, fs |-> f, read |-> <<>>,
          hit |-> fp \in {"none", "meta"} /\ k = 0]
    ELSE IF fp = "open"
    THEN [ok |-> FALSE, fs |-> f, read |-> <<>>, hit |-> k = 0]
    ELSE IF fp = "create" \/ IsDir(f, d) \/ ~IsDir(f, Parent(d))
    THEN [ok |-> FALSE, fs |-> f, read |-> <<>>,
          hit |-> fp \in {"none", "create"} /\ k = 0]
    ELSE LET f1 == Put(IF Exists(f, d) THEN f ELSE Touch(f, Parent(d), t),
                       d, File(<<>>, t))
             c  == f1[s].content
         IN  [ok   |-> fp \notin {"read", "write"},
              fs   |-> Put(f1, d, File(Written(c, fp, k), t)),
              read |-> c,
              hit  |-> /\ fp \in {"none", "read", "write"}
                       /\ fp = "read" => k <= Len(c)
                       /\ fp = "write" => k < Len(c)
                       /\ fp = "none" => k = 0]

\* ------------------------------------------------------- main, copy phase
\* main, line 116
ShouldCopy(sourceMod, targetMod) == sourceMod > targetMod

\* The outcome of one pass of the loop of lines 84-150.
Outcome(f, decision, err, read, hit) ==
    [fs |-> f, decision |-> decision, err |-> err, read |-> read, hit |-> hit]

\* One pass of the copy loop for the enumerated file p at time t.  xerr: the
\* existence test of line 99 fails (Path::exists then answers false).  fp: the
\* call that fails afterwards; k: how far a failing call got.
CopyBody(f, p, t, xerr, fp, k) ==
    IF ~IsPrefix(src, p)
    THEN Outcome(f, "None", "relpath", <<>>, fp = "none" /\ ~xerr /\ k = 0)
    ELSE
    LET rel     == StripPrefix(p, src)
        target  == Join(tgt, rel)
        present == Exists(f, target) /\ ~xerr
        xhit    == xerr => Exists(f, target)
    IN  IF present /\ (fp = "srcMtime" \/ ~Exists(f, p))
        THEN Outcome(f, "None", "srcMtime", <<>>, k = 0)
        ELSE IF present /\ fp = "tgtMtime"
        THEN Outcome(f, "None", "tgtMtime", <<>>, k = 0)
        ELSE IF present /\ ~ShouldCopy(f[p].mtime, f[target].mtime)
        THEN Outcome(f, "Skip", "none", <<>>, fp = "none" /\ k = 0)
        ELSE
        LET mk == CreateDirAll(f, Parent(target), t, IF fp = "mkdir" THEN k ELSE -1)
        IN  IF ~mk.ok
            THEN Outcome(mk.fs, "Copy", "mkdir", <<>>,
                         /\ xhit
                         /\ \/ fp = "none" /\ k = 0
                            \/ fp = "mkdir" /\ k \in MkdirFailPoints(f, Parent(target)))
            ELSE IF fp = "attr" /\ Exists(mk.fs, target)
            THEN Outcome(mk.fs, "Copy", "attr", <<>>, xhit /\ k = 0)
            ELSE
            LET cp == CopyWithProgress(mk.fs, p, target, t, fp, k)
            IN  Outcome(cp.fs, "Copy", IF cp.ok THEN "none" ELSE "copy",
                        cp.read, xhit /\ cp.hit)


\* ---------------------------------------------------------- purge_orphans
\* Mutant of KeepDepth: the filter lets the root through.
KeepDepthAll(d) == d >= 0

\* purge_orphans, line 218: the filter on the walk's entries
KeepDepth(d) == d > 0

RECURSIVE SortFrom(_, _, _)
\* The entries of seq of depth d, then those of depth d - 1, ..., each depth
\* in the order of seq.
SortFrom(seq, root, d) ==
    IF d < 0 THEN <<>>
    ELSE SelectSeq(seq, LAMBDA p : Depth(p, root) = d) \o SortFrom(seq, root, d - 1)

MaxDepth(seq, root) ==
    IF seq = <<>> THEN 0
    ELSE CHOOSE d \in { Depth(seq[i], root) : i \in 1..Len(seq) } :
            \A i \in 1..Len(seq) : Depth(seq[i], root) <= d

\* Mutant of SortDeepestFirst: the entries stay in the order of the walk.
Unsorted(seq, root) == seq

\* purge_orphans, line 222: entries.sort_by_key(|e| Reverse(e.depth())), a
\* stable sort.
SortDeepestFirst(seq, root) == SortFrom(seq, root, MaxDepth(seq, root))

\* purge_orphans, lines 214-222: the entries the loop will go through.
PurgeEntries(f, ord, bad) ==
    SortDeepestFirst(
        SelectSeq(WalkDir(f, tgt, ord, bad), LAMBDA p : KeepDepth(Depth(p, tgt))),
        tgt)

\* The outcome of one pass of the loop of lines 227-254.
Purged(f, call, ok, hit) == [fs |-> f, call |-> call, ok |-> ok, hit |-> hit]

\* Mutant of HasCounterpart: only a regular file counts as a counterpart.
HasCounterpartFile(f, c, xerr) == IsFile(f, c) /\ ~xerr

\* purge_orphans, line 236: counterpart.exists(), which answers false when the
\* test itself fails (xerr).
HasCounterpart(f, c, xerr) == Exists(f, c) /\ ~xerr

\* Mutant of Removed: the removal reports Ok and the entry stays.
RemovedNot(f, e, t) == f

\* purge_orphans, lines 244 and 247: the file system after a removal of e
\* that succeeded at time t.
Removed(f, e, t) == Touch(Drop(f, e), Parent(e), t)

\* One pass of the purge loop for entry e at time t.  xerr: the existence test
\* of the counterpart fails (Path::exists then answers false).  rmErr: the
\* removal fails.
PurgeBody(f, e, t, xerr, rmErr) ==
    LET rel         == StripPrefix(e, tgt)
        counterpart == Join(src, rel)
    IN  IF HasCounterpart(f, counterpart, xerr)
        THEN Purged(f, "keep", TRUE, ~rmErr)
        ELSE
        LET xhit == xerr => Exists(f, counterpart)
            call == IF IsFile(f, e) THEN "remove_file" ELSE "remove_dir"
            can  == IF IsFile(f, e) THEN TRUE
                    ELSE IsDir(f, e) /\ Children(f, e) = {}
        IN  IF can /\ ~rmErr
            THEN Purged(Removed(f, e, t), call, TRUE, xhit)
            ELSE Purged(f, call, FALSE, xhit /\ (rmErr => can))


\* ------------------------------------------------------------ initial state
\* File contents: the source tree's files hold two chunks, the target tree's
\* files one chunk that is no prefix of them.
ContentA == <<"a1", "a2">>

ContentB == <<"b1">>

MaxLen == Len(ContentA)

\* The command line: two unrelated roots, the target root inside the source
\* root, the source root inside the target root.
Configs == {"apart", "targetInSource", "sourceInTarget"}

SrcRoot(cfg) == IF cfg = "sourceInTarget" THEN <<"t", "s">> ELSE <<"s">>

TgtRoot(cfg) == IF cfg = "targetInSource" THEN <<"s", "t">> ELSE <<"t">>

\* What a tree holds below its root: nothing at all (the root is absent), a
\* file in place of the root, an empty root, a file d, a directory d with
\* zero, one or two files.
Shapes == {"none", "rootfile", "empty", "file", "dir0", "dir1", "dir2"}

Tree(root, shape, c, t) ==
    LET d == root \o <<"d">>
        top == root :> Dir(t)
    IN  CASE shape = "none"     -> <<>>
          [] shape = "rootfile" -> root :> File(c, t)
          [] shape = "empty"    -> top
          [] shape = "file"     -> top @@ (d :> File(c, t))
          [] shape = "dir0"     -> top @@ (d :> Dir(t))
          [] shape = "dir1"     -> top @@ (d :> Dir(t)) @@ (d \o <<"x">> :> File(c, t))
          [] shape = "dir2"     -> top @@ (d :> Dir(t)) @@ (d \o <<"x">> :> File(c, t))
                                       @@ (d \o <<"y">> :> File(c, t))

HasRoot(shape) == shape \notin {"none", "rootfile"}

\* The shapes of the two trees when one root lies inside the other.
NestedShapes == {"none", "rootfile", "empty", "file", "dir1"}

Init ==
    \E cfg \in Configs, ss \in Shapes \ {"dir0"}, ts \in Shapes,
       ms \in 1..MaxTime, mt \in 0..MaxTime, del \in BOOLEAN :
        /\ cfg # "apart" => (ss \in NestedShapes /\ ts \in NestedShapes)
        /\ cfg = "targetInSource" => (HasRoot(ss) \/ ts = "none")
        /\ cfg = "sourceInTarget" => (HasRoot(ts) \/ ss = "none")
        /\ src = SrcRoot(cfg)
        /\ tgt = TgtRoot(cfg)
        /\ delete = del
        /\ fs = Tree(TgtRoot(cfg), ts, ContentB, mt) @@ Tree(SrcRoot(cfg), ss, ContentA, ms)
                  @@ (<<>> :> Dir(0))
        /\ fs0 = fs
        /\ now = 1
        /\ pc = "start"
        /\ phases = <<>>
        /\ files = <<>>
        /\ entries = <<>>
        /\ cands = <<>>
        /\ len = 0
        /\ pos = 0
        /\ deleted = <<>>
        /\ log = {}
        /\ errs = {}
        /\ run = 1
        /\ faults = 0
        /\ copyLog = <<>>
        /\ prevLog = <<>>
        /\ purgeLog = <<>>

\* ------------------------------------------------------------------ actions
\* main, lines 55-72: the source walk and the progress bar.
Collect(f, cost) ==
    \E ord \in SiblingOrders, bad \in SUBSET Listable(f, src) :
        /\ bad = WalkErrors(f, src, ord, bad)
        /\ faults + cost + Cardinality(bad) <= MaxFaults
        /\ fs' = f
        /\ files' = CollectFiles(f, ord, bad)
        /\ len' = Len(CollectFiles(f, ord, bad))
        /\ log' = log \cup { <<"walk", p>> : p \in bad }
        /\ errs' = errs \cup { <<"walk", p>> : p \in bad }
        /\ faults' = faults + cost + Cardinality(bad)
        /\ pc' = "copy"
        /\ phases' = Append(phases, "copy")
        /\ UNCHANGED <<now, src, tgt, delete, entries, cands, pos, deleted, run,
                       fs0, copyLog, prevLog, purgeLog>>

\* Mutant of Abort: after a fatal setup error the run goes on.
AbortGoesOn(f, kind, cost) == Collect(f, cost)

\* main, lines 41-53: a fatal setup error ends the run.
Abort(f, kind, cost) ==
    /\ faults + cost <= MaxFaults
    /\ fs' = f
    /\ pc' = "aborted"
    /\ log' = log \cup {<<kind, <<>> >>}
    /\ errs' = errs \cup {<<kind, <<>> >>}
    /\ faults' = faults + cost
    /\ UNCHANGED <<now, src, tgt, delete, phases, files, entries, cands, len, pos,
                   deleted, run, fs0, copyLog, prevLog, purgeLog>>

\* main, lines 37-72: the checks of the two roots, then the source walk.
Setup ==
    /\ pc = "start"
    /\ IF ~IsDir(fs, src) THEN Abort(fs, "source", 0)
       ELSE IF Exists(fs, tgt)
       THEN IF ~IsDir(fs, tgt) THEN Abort(fs, "target", 0) ELSE Collect(fs, 0)
       ELSE \E k \in {-1} \cup MkdirFailPoints(fs, tgt) :
               LET mk   == CreateDirAll(fs, tgt, now, k)
                   cost == IF k < 0 THEN 0 ELSE 1
               IN  IF mk.ok THEN Collect(mk.fs, cost) ELSE Abort(mk.fs, "create", cost)

\* Mutant of RemainingFiles: an error ends the loop.
RemainingFilesBreak(fl, err) == IF err = "none" THEN Tail(fl) ELSE <<>>

\* Mutant of CopyPhaseOver: the purge does not wait for the last file.
CopyPhaseOverEarly(fl) == TRUE

\* Mutant of PurgeEnabled: the purge runs without the flag.
PurgeAlways(flag) == TRUE

\* main, lines 93, 105, 113, 127, 138, 146 and 149: after a pass that ended
\* with err ("none": without an error) the loop goes on with the next file.
RemainingFiles(fl, err) == Tail(fl)

\* main, lines 84 and 150: the copy loop has ended.
CopyPhaseOver(fl) == fl = <<>>

\* main, line 153
PurgeEnabled(flag) == flag

\* purge_orphans, lines 237 and 250-253: after a pass the loop goes on with
\* the next entry, whether the removal was skipped, succeeded or failed.
RemainingEntries(es, ok) == Tail(es)

\* Mutant of PbInc: a pass that ends with an error leaves the counter alone.
PbIncOnSuccess(n, err) == IF err = "none" THEN n + 1 ELSE n

\* main, lines 92, 104, 112, 126, 137, 145 and 149: pb.inc(1), once on every
\* path through the loop body.
PbInc(n, err) == n + 1

\* The calls of one pass of the copy loop that may fail.
CopyFaults == {"srcMtime", "tgtMtime", "mkdir", "attr", "meta", "open", "create",
               "read", "write"}

\* main, lines 84-150: one pass of the copy loop.
CopyStep ==
    /\ pc = "copy"
    /\ files # <<>>
    /\ \E xerr \in BOOLEAN, fp \in CopyFaults \cup {"none"}, k \in 0..MaxLen :
        LET p    == Head(files)
            r    == CopyBody(fs, p, now, xerr, fp, k)
            cost == (IF xerr THEN 1 ELSE 0) + (IF fp = "none" THEN 0 ELSE 1)
            new  == IF xerr THEN {<<"exists", Join(tgt, StripPrefix(p, src))>>} ELSE {}
            line == IF r.err = "none" THEN {} ELSE {<<r.err, p>>}
        IN  /\ faults + cost <= MaxFaults
            /\ r.hit
            /\ fs' = r.fs
            /\ log' = log \cup line
            /\ errs' = errs \cup line \cup new
            /\ faults' = faults + cost
            /\ files' = RemainingFiles(files, r.err)
            /\ copyLog' = Append(copyLog,
                             [path |-> p, decision |-> r.decision, err |-> r.err,
                              read |-> r.read])
            /\ pos' = PbInc(pos, r.err)
    /\ UNCHANGED <<now, src, tgt, delete, pc, phases, entries, cands, len, deleted,
                   run, fs0, prevLog, purgeLog>>

\* main, lines 152-160 without --delete: the run ends after the copy loop.
Finish ==
    /\ pc = "copy"
    /\ CopyPhaseOver(files)
    /\ ~PurgeEnabled(delete)
    /\ pc' = "done"
    /\ UNCHANGED <<fs, now, src, tgt, delete, phases, files, entries, cands, len,
                   pos, deleted, log, errs, run, faults, fs0, copyLog, prevLog,
                   purgeLog>>

\* main, lines 153-155, and purge_orphans, lines 214-224: the target walk, whose
\* Err items are dropped by filter_map(|e| e.ok()), the depth filter, the sort.
StartPurge ==
    /\ pc = "copy"
    /\ CopyPhaseOver(files)
    /\ PurgeEnabled(delete)
    /\ \E ord \in SiblingOrders, bad \in SUBSET Listable(fs, tgt) :
        /\ bad = WalkErrors(fs, tgt, ord, bad)
        /\ faults + Cardinality(bad) <= MaxFaults
        /\ entries' = PurgeEntries(fs, ord, bad)
        /\ cands' = PurgeEntries(fs, ord, bad)
        /\ errs' = errs \cup { <<"walk", p>> : p \in bad }
        /\ faults' = faults + Cardinality(bad)
    /\ pc' = "purge"
    /\ phases' = Append(phases, "purge")
    /\ deleted' = <<>>
    /\ UNCHANGED <<fs, now, src, tgt, delete, files, len, pos, log, run, fs0,
                   copyLog, prevLog, purgeLog>>

\* purge_orphans, lines 227-254: one pass of the purge loop.
PurgeStep ==
    /\ pc = "purge"
    /\ entries # <<>>
    /\ \E xerr \in BOOLEAN, rmErr \in BOOLEAN :
        LET e    == Head(entries)
            r    == PurgeBody(fs, e, now, xerr, rmErr)
            cost == (IF xerr THEN 1 ELSE 0) + (IF rmErr THEN 1 ELSE 0)
            line == IF r.ok THEN {} ELSE {<<"delete", e>>}
            new  == IF xerr THEN {<<"exists", Join(src, StripPrefix(e, tgt))>>} ELSE {}
        IN  /\ faults + cost <= MaxFaults
            /\ r.hit
            /\ fs' = r.fs
            /\ deleted' = IF r.ok /\ r.call # "keep"
                          THEN Append(deleted, StripPrefix(e, tgt)) ELSE deleted
            /\ log' = log \cup line
            /\ errs' = errs \cup line \cup new
            /\ faults' = faults + cost
            /\ entries' = RemainingEntries(entries, r.ok)
            /\ purgeLog' = Append(purgeLog,
                              [path |-> e, call |-> r.call, ok |-> r.ok,
                               orphan |-> ~Exists(fs, Join(src, StripPrefix(e, tgt))),
                               empty |-> Children(fs, e) = {}])
    /\ UNCHANGED <<now, src, tgt, delete, pc, phases, files, cands, len, pos, run,
                   fs0, copyLog, prevLog>>

\* purge_orphans, lines 256-266, and main, line 160: the summary; the run ends.
PurgeSummary ==
    /\ pc = "purge"
    /\ entries = <<>>
    /\ pc' = "done"
    /\ UNCHANGED <<fs, now, src, tgt, delete, phases, files, entries, cands, len,
                   pos, deleted, log, errs, run, faults, fs0, copyLog, prevLog,
                   purgeLog>>

\* The operator starts the program again with the same arguments.
Restart ==
    /\ pc \in {"done", "aborted"}
    /\ run < MaxRuns
    /\ run' = run + 1
    /\ pc' = "start"
    /\ phases' = <<>>
    /\ fs0' = fs
    /\ prevLog' = copyLog
    /\ files' = <<>>
    /\ entries' = <<>>
    /\ cands' = <<>>
    /\ len' = 0
    /\ pos' = 0
    /\ deleted' = <<>>
    /\ log' = {}
    /\ errs' = {}
    /\ copyLog' = <<>>
    /\ purgeLog' = <<>>
    /\ UNCHANGED <<fs, now, src, tgt, delete, faults>>

\* Time passes.  A run is short against the clock's unit: the clock moves
\* between runs, not within one.
Tick ==
    /\ pc = "start"
    /\ now < MaxTime
    /\ now' = now + 1
    /\ UNCHANGED <<fs, src, tgt, delete, pc, phases, files, entries, cands, len,
                   pos, deleted, log, errs, run, faults, fs0, copyLog, prevLog,
                   purgeLog>>

\* One run of the program.
Next ==
    \/ Setup
    \/ CopyStep
    \/ Finish
    \/ StartPurge
    \/ PurgeStep
    \/ PurgeSummary
    \/ Tick

Spec == Init /\ [][Next]_vars

\* Runs in succession on two roots that lie apart.
InitApart == Init /\ src = <<"s">> /\ tgt = <<"t">>

NextRerun ==
    \/ Setup
    \/ CopyStep
    \/ Finish
    \/ StartPurge
    \/ PurgeStep
    \/ PurgeSummary
    \/ Tick
    \/ Restart

SpecRerun == InitApart /\ [][NextRerun]_vars


\* ------------------------------------------------------------------ claims
\* The target path of the enumerated source file p.
TargetOf(p) == Join(tgt, StripPrefix(p, src))

\* The source path that purge_orphans looks up for the target entry e.
CounterpartOf(e) == Join(src, StripPrefix(e, tgt))

\* Neither root lies inside the other.
Apart == ~IsPrefix(src, tgt) /\ ~IsPrefix(tgt, src)

\* The copy loop has handled every enumerated file and nothing came after.
CopyPhaseDone == pc = "copy" /\ files = <<>>

\* C1, as claimed: when the copy phase has finished, every enumerated source
\* file has a byte-identical regular file at the same relative path under the
\* target root, whatever the two trees held before.  Stated for the runs in
\* which no call failed and no error was logged.
C1_Completeness ==
    (CopyPhaseDone /\ faults = 0 /\ log = {}) =>
        \A i \in 1..Len(copyLog) :
            LET p == copyLog[i].path
            IN  /\ IsFile(fs, TargetOf(p))
                /\ fs[TargetOf(p)].content = fs[p].content

\* C1, amended: throughout and at the end of the copy phase, every source file
\* handled with the decision Copy (target missing, or older than the source)
\* and without a failed step has a regular file at its target path holding
\* exactly the chunks read from the source file; with the two roots apart that
\* is the content of the source file.  A file decided Skip keeps its target.
C1_CopiedFilesIdentical ==
    pc = "copy" =>
        \A i \in 1..Len(copyLog) :
            LET p == copyLog[i].path
            IN  /\ (copyLog[i].decision = "Copy" /\ copyLog[i].err = "none") =>
                    /\ IsFile(fs, TargetOf(p))
                    /\ fs[TargetOf(p)].content = copyLog[i].read
                    /\ Apart => fs[TargetOf(p)].content = fs[p].content
                /\ copyLog[i].decision = "Skip" =>
                    /\ Exists(fs0, TargetOf(p))
                    /\ fs[TargetOf(p)].content = fs0[TargetOf(p)].content

\* C1, witness: the copy phase has ended after overwriting an older target file
\* of another content with the content of its source file.
C1_Witness ==
    /\ CopyPhaseDone
    /\ \E i \in 1..Len(copyLog) :
        LET p == copyLog[i].path
        IN  /\ copyLog[i].decision = "Copy"
            /\ copyLog[i].err = "none"
            /\ IsFile(fs0, TargetOf(p))
            /\ fs0[TargetOf(p)].content # fs[TargetOf(p)].content
            /\ fs[TargetOf(p)].content = fs[p].content


\* The source files that had a regular file at their target path when the run
\* started.
InBothBefore ==
    { p \in DOMAIN fs0 : /\ IsPrefix(src, p)
                         /\ IsFile(fs0, p)
                         /\ IsFile(fs0, TargetOf(p)) }

\* C2, as claimed: for every file present at the same relative path in both
\* trees before a run, (a) if the source is newer, the target's content equals
\* the source's after the run; (b) otherwise the run leaves the target's bytes
\* and mtime as they were.  Stated for the runs in which no call failed.
C2_FreshnessMonotonicity ==
    (pc = "done" /\ faults = 0) =>
        \A p \in InBothBefore :
            IF fs0[p].mtime > fs0[TargetOf(p)].mtime
            THEN /\ IsFile(fs, TargetOf(p))
                 /\ IsFile(fs, p)
                 /\ fs[TargetOf(p)].content = fs[p].content
            ELSE /\ IsFile(fs, TargetOf(p))
                 /\ fs[TargetOf(p)] = fs0[TargetOf(p)]

\* C3, as claimed: in a run that follows another run on the same roots, with
\* nothing but the program changing the trees, no file is decided Copy.
\* Stated for the behaviours in which no call failed and the run before
\* handled every file without an error.
C3_Idempotence ==
    (/\ run > 1
     /\ faults = 0
     /\ \A i \in 1..Len(prevLog) : prevLog[i].err = "none") =>
        \A i \in 1..Len(copyLog) : copyLog[i].decision # "Copy"

\* C4, as claimed: when purge_orphans has finished, every entry below the
\* target root has an entry at the same relative path under the source root or
\* a logged failed removal, and no removed entry had a counterpart under the
\* source root.  Stated for the runs in which no call failed.
C4_PurgeCorrectness ==
    (pc = "done" /\ delete /\ faults = 0) =>
        /\ \A q \in DOMAIN fs :
              (IsPrefix(tgt, q) /\ q # tgt) =>
                  \/ Exists(fs, CounterpartOf(q))
                  \/ <<"delete", q>> \in log
        /\ \A i \in 1..Len(purgeLog) :
              (purgeLog[i].call # "keep" /\ purgeLog[i].ok) => purgeLog[i].orphan

\* What lies at and below the source root.
SourceTree(f) == [p \in { q \in DOMAIN f : IsPrefix(src, q) } |-> f[p]]

\* C5, as claimed: no step of the copy phase or of the purge phase creates,
\* writes, truncates or removes anything at or below the source root.  Stated
\* for the steps of runs in which no call failed.
C5_SourceNeverMutated ==
    [][(pc \in {"copy", "purge"} /\ faults' = 0) =>
          SourceTree(fs') = SourceTree(fs)]_vars


\* C6: purge_orphans never issues a removal on the target root itself: its
\* candidates all lie at depth 1 or more below the target root, and every
\* remove_file or remove_dir call is on such a path.
C6_RootProtection ==
    /\ \A i \in 1..Len(cands) :
          IsPrefix(tgt, cands[i]) /\ Depth(cands[i], tgt) >= 1
    /\ \A i \in 1..Len(purgeLog) :
          purgeLog[i].call # "keep" =>
              /\ purgeLog[i].path # tgt
              /\ IsPrefix(tgt, purgeLog[i].path)
              /\ Depth(purgeLog[i].path, tgt) >= 1

\* C6, witness: the purge has removed everything the target root held, and the
\* target root is still there.
C6_Witness ==
    /\ pc = "done"
    /\ delete
    /\ Children(fs0, tgt) # {}
    /\ Children(fs, tgt) = {}
    /\ IsDir(fs, tgt)
    /\ \E i \in 1..Len(purgeLog) : purgeLog[i].call = "remove_dir" /\ purgeLog[i].ok

\* C7: purge_orphans handles its candidates deepest first: no entry is handled
\* before an entry of greater depth, so no directory before its descendants.
C7_DeletionOrdering ==
    /\ \A i, j \in 1..Len(purgeLog) :
          i < j => Depth(purgeLog[i].path, tgt) >= Depth(purgeLog[j].path, tgt)
    /\ \A i \in 1..Len(purgeLog), j \in 1..Len(entries) :
          Depth(purgeLog[i].path, tgt) >= Depth(entries[j], tgt)
    /\ \A i, j \in 1..Len(purgeLog) :
          (IsPrefix(purgeLog[i].path, purgeLog[j].path) /\ i # j) => j < i

\* C7, witness: a directory without a counterpart was removed after the file
\* it held.
C7_Witness ==
    \E i, j \in 1..Len(purgeLog) :
        /\ i < j
        /\ purgeLog[i].call = "remove_file"
        /\ purgeLog[i].ok
        /\ purgeLog[j].call = "remove_dir"
        /\ purgeLog[j].ok
        /\ Parent(purgeLog[i].path) = purgeLog[j].path

\* C8: within a run the purge starts only when the copy loop has handled the
\* last enumerated file, and once the purge has started no copy step follows.
C8_PhaseOrdering ==
    [][/\ (pc' = "purge" \/ purgeLog' # <<>>) =>
            (files' = <<>> /\ Len(copyLog') = len')
       /\ (pc = "purge" \/ purgeLog # <<>>) =>
            (copyLog' = copyLog /\ files' = files)]_vars

\* C8, witness: a run that copied a file and then removed an entry has ended.
C8_Witness ==
    /\ pc = "done"
    /\ \E i \in 1..Len(copyLog) :
          copyLog[i].decision = "Copy" /\ copyLog[i].err = "none"
    /\ \E i \in 1..Len(purgeLog) : purgeLog[i].call # "keep" /\ purgeLog[i].ok

\* C9: without --delete a run removes nothing from the target tree: no purge
\* step is taken and every path below the target root at the start of the run
\* is still there.
C9_PurgeOptIn ==
    ~delete =>
        /\ purgeLog = <<>>
        /\ cands = <<>>
        /\ \A p \in DOMAIN fs0 : IsPrefix(tgt, p) => p \in DOMAIN fs

\* C9, witness: a run without --delete has ended after copying a file, and the
\* target still holds an entry that has no counterpart under the source root.
C9_Witness ==
    /\ pc = "done"
    /\ ~delete
    /\ \E i \in 1..Len(copyLog) :
          copyLog[i].decision = "Copy" /\ copyLog[i].err = "none"
    /\ \E q \in DOMAIN fs :
          /\ IsPrefix(tgt, q)
          /\ q # tgt
          /\ q \in DOMAIN fs0
          /\ ~Exists(fs, CounterpartOf(q))

\* C10: an error on one file or one entry never stops the run.  Every
\* enumerated file is handled or still in line and all are handled when the
\* copy loop is left, a run with --delete ends only after the purge phase, and
\* every candidate is handled or still in line and all are handled when the
\* run ends: one that has no counterpart gets its removal attempted.
C10_ErrorIsolation ==
    /\ pc = "copy" => Len(copyLog) + Len(files) = len
    /\ pc \in {"purge", "done"} => Len(copyLog) = len
    /\ (pc = "done" /\ delete) => phases = <<"copy", "purge">>
    /\ pc = "purge" =>
          /\ Len(purgeLog) + Len(entries) = Len(cands)
          /\ \A i \in 1..Len(entries) : entries[i] = cands[Len(purgeLog) + i]
    /\ (pc = "done" /\ delete) => Len(purgeLog) = Len(cands)
    /\ \A i \in 1..Len(purgeLog) :
          /\ purgeLog[i].path = cands[i]
          /\ purgeLog[i].orphan => purgeLog[i].call # "keep"

\* C10, witness: a run has ended in which the copy of a file failed and a later
\* file was still copied, and the removal of an entry failed and a later entry
\* was still removed.
C10_Witness ==
    /\ pc = "done"
    /\ \E i, j \in 1..Len(copyLog) :
          /\ i < j
          /\ copyLog[i].err # "none"
          /\ copyLog[j].decision = "Copy"
          /\ copyLog[j].err = "none"
    /\ \E i, j \in 1..Len(purgeLog) :
          /\ i < j
          /\ purgeLog[i].call # "keep"
          /\ ~purgeLog[i].ok
          /\ purgeLog[j].call # "keep"
          /\ purgeLog[j].ok

\* The regular files of f, with content and mtime.
FilesOf(f) == [p \in { q \in DOMAIN f : IsFile(f, q) } |-> f[p]]

\* C11: a fatal setup error touches nothing.  A run goes past the checks of
\* main only if the source root is a directory and the target root is a
\* directory (found or created); a run that ended at one of the three checks
\* has enumerated nothing, handled no file, entered neither phase (with or
\* without --delete), and left every regular file as it was.
C11_FatalSetupErrors ==
    /\ pc \in {"copy", "purge", "done"} =>
          /\ IsDir(fs0, src)
          /\ Exists(fs0, tgt) => IsDir(fs0, tgt)
          /\ IsDir(fs, tgt)
    /\ pc = "aborted" =>
          /\ \/ ~IsDir(fs0, src)
             \/ Exists(fs0, tgt) /\ ~IsDir(fs0, tgt)
             \/ ~Exists(fs0, tgt) /\ ~IsDir(fs, tgt)
          /\ phases = <<>>
          /\ files = <<>> /\ len = 0 /\ pos = 0
          /\ copyLog = <<>>
          /\ cands = <<>> /\ purgeLog = <<>> /\ deleted = <<>>
          /\ FilesOf(fs) = FilesOf(fs0)
          /\ log # {}

\* C11, witness: a run with --delete ended at the failed creation of the
\* target root, with a file under the source root waiting to be copied.
C11_Witness ==
    /\ pc = "aborted"
    /\ delete
    /\ <<"create", <<>> >> \in log
    /\ \E p \in DOMAIN fs : IsPrefix(src, p) /\ IsFile(fs, p)
    /\ ~Exists(fs, tgt)

\* The purge loop kept a child of the entry it handled in pass i.
HasKeptChild(i) ==
    \E j \in 1..Len(purgeLog) :
        /\ j < i
        /\ purgeLog[j].call = "keep"
        /\ Parent(purgeLog[j].path) = purgeLog[i].path

\* C12, as claimed: a target directory that holds a kept child has its removal
\* attempted, and the attempt fails and is logged.  Stated for the runs on
\* two roots that lie apart in which no call failed.
C12_KeptDirectoryAttempted ==
    (faults = 0 /\ Apart) =>
        \A i \in 1..Len(purgeLog) :
            HasKeptChild(i) =>
                /\ purgeLog[i].call = "remove_dir"
                /\ ~purgeLog[i].ok
                /\ <<"delete", purgeLog[i].path>> \in log

\* C12, amended: a target directory that holds a kept child is kept itself:
\* its counterpart exists under the source root, the loop passes it by without
\* a removal attempt and without a log line, and the directory stays.  Only
\* when the existence test of its counterpart fails is its removal attempted,
\* and that attempt fails, is logged, and leaves the directory.
C12_KeptDirectoryKept ==
    \A i \in 1..Len(purgeLog) :
        HasKeptChild(i) =>
            /\ ~purgeLog[i].orphan
            /\ ~purgeLog[i].empty
            /\ IsDir(fs, purgeLog[i].path)
            /\ \/ /\ purgeLog[i].call = "keep"
                  /\ <<"delete", purgeLog[i].path>> \notin log
               \/ /\ purgeLog[i].call = "remove_dir"
                  /\ ~purgeLog[i].ok
                  /\ <<"delete", purgeLog[i].path>> \in log
                  /\ <<"exists", CounterpartOf(purgeLog[i].path)>> \in errs
            /\ faults = 0 => purgeLog[i].call = "keep"

\* C12, witness: the scenario.  The target held d/x (also under the source
\* root) and d/y (not under the source root); the purge has removed d/y, kept
\* d/x and d, and logged nothing.
C12_Witness ==
    /\ pc = "done"
    /\ Apart
    /\ faults = 0
    /\ log = {}
    /\ \E i, j, k \in 1..Len(purgeLog) :
          /\ purgeLog[i].call = "remove_file" /\ purgeLog[i].ok
          /\ purgeLog[j].call = "keep" /\ IsFile(fs, purgeLog[j].path)
          /\ purgeLog[k].call = "keep" /\ IsDir(fs, purgeLog[k].path)
          /\ Parent(purgeLog[i].path) = purgeLog[k].path
          /\ Parent(purgeLog[j].path) = purgeLog[k].path
          /\ i < k /\ j < k

\* C13, as claimed: whenever the target path of a file exists and a metadata
\* read on it or on the source fails (the existence test of the target path
\* included), the file is logged and passed by: the decision is not Copy and
\* the target is as it was when the run started.
C13_MetadataFailureMeansSkip ==
    Apart =>
        \A i \in 1..Len(copyLog) :
            LET p == copyLog[i].path
            IN  (/\ Exists(fs0, TargetOf(p))
                 /\ \/ copyLog[i].err \in {"srcMtime", "tgtMtime"}
                    \/ <<"exists", TargetOf(p)>> \in errs) =>
                    /\ copyLog[i].decision # "Copy"
                    /\ \E kind \in {"srcMtime", "tgtMtime", "exists"} : <<kind, p>> \in log
                    /\ fs[TargetOf(p)] = fs0[TargetOf(p)]

\* C14, as claimed: every error that occurred during a run has its line in
\* the output.  Stated for the errors the claim lists: those of the two walks,
\* of the passes of the copy loop, of the attribute clear, of the removals
\* (the failed existence tests, which have no line either, are left aside).
C14_NoSilentErrors ==
    \A e \in errs : e[1] # "exists" => e \in log

\* q lies below the directory d.
Below(d, q) == IsPrefix(d, q) /\ q # d

\* Pass i of the purge loop handled a directory that had no counterpart.
OrphanDir(i) == purgeLog[i].orphan /\ purgeLog[i].call = "remove_dir"

\* Something below the directory of pass i was not removed before that pass:
\* a removal in an earlier pass failed, or an entry below it never was a
\* candidate (the walk did not yield it).
Blocked(i) ==
    \/ \E j \in 1..Len(purgeLog) :
          /\ j < i
          /\ Below(purgeLog[i].path, purgeLog[j].path)
          /\ ~purgeLog[j].ok
    \/ \E q \in DOMAIN fs :
          /\ Below(purgeLog[i].path, q)
          /\ q \notin Range(cands)

\* C15: a single pass empties the directories that have no counterpart.  For
\* every such directory, everything below it has no counterpart either and is
\* handled before it; if each of those removals succeeded the directory is
\* empty when its turn comes and its removal succeeds in the same pass (unless
\* remove_dir itself is made to fail); a failure on a non-empty directory
\* without counterpart follows a failed or never attempted removal below it.
C15_SinglePassEmptiesOrphanDirs ==
    \A i \in 1..Len(purgeLog) :
        OrphanDir(i) =>
            /\ \A j \in 1..Len(purgeLog) :
                  Below(purgeLog[i].path, purgeLog[j].path) =>
                      /\ j < i
                      /\ purgeLog[j].orphan
                      /\ purgeLog[j].call # "keep"
            /\ \A j \in 1..Len(entries) : ~Below(purgeLog[i].path, entries[j])
            /\ ~Blocked(i) =>
                  /\ purgeLog[i].empty
                  /\ faults = 0 => purgeLog[i].ok
                  /\ ~purgeLog[i].ok => <<"delete", purgeLog[i].path>> \in log
            /\ (~purgeLog[i].ok /\ ~purgeLog[i].empty) => Blocked(i)
            /\ purgeLog[i].ok => ~Exists(fs, purgeLog[i].path)

\* C15, witness: the target held a directory with two files and the source
\* nothing of that name; the run removed the two files, then the directory.
C15_Witness ==
    /\ pc = "done"
    /\ \E i, j, k \in 1..Len(purgeLog) :
          /\ j < k /\ k < i
          /\ OrphanDir(i)
          /\ purgeLog[i].ok
          /\ Parent(purgeLog[j].path) = purgeLog[i].path
          /\ Parent(purgeLog[k].path) = purgeLog[i].path
          /\ purgeLog[j].call = "remove_file" /\ purgeLog[j].ok
          /\ purgeLog[k].call = "remove_file" /\ purgeLog[k].ok
          /\ Len(deleted) = 3

\* C16: every pass of the copy loop, whatever its path (copied, skipped,
\* relative-path error, source or target mtime error, directory-creation
\* error, attribute-clear error, copy error), advances the overall progress
\* counter by exactly one: the counter equals the number of files handled so
\* far, never exceeds the bar's length, and equals the number of enumerated
\* source files when the copy loop has ended.
C16_ProgressCounter ==
    /\ pos = Len(copyLog)
    /\ pos <= len
    /\ pc = "copy" => pos + Len(files) = len
    /\ (CopyPhaseDone \/ pc \in {"purge", "done"}) => pos = len

\* C16, witness: the copy loop has ended after two files, one passed with an
\* error and one copied, and the counter reads two.
C16_Witness ==
    /\ CopyPhaseDone
    /\ len = 2
    /\ pos = 2
    /\ \E i, j \in 1..Len(copyLog) :
          /\ copyLog[i].err # "none"
          /\ copyLog[j].err = "none"
          /\ copyLog[j].decision = "Copy"

\* C17, as claimed: a copy that failed after the target file was opened for
\* writing is retried.  In a run that follows, on two roots that lie apart
\* and with the source tree unchanged, a file whose copy failed partway in the
\* run before, and whose target still differs from it, is decided Copy when
\* its pass meets no error.
C17_FailedCopyRetried ==
    run > 1 =>
        \A i \in 1..Len(prevLog), j \in 1..Len(copyLog) :
            LET p == copyLog[j].path
            IN  (/\ prevLog[i].path = p
                 /\ prevLog[i].err = "copy"
                 /\ prevLog[i].read # <<>>
                 /\ IsFile(fs0, p)
                 /\ IsFile(fs0, TargetOf(p))
                 /\ fs0[TargetOf(p)].content # fs0[p].content
                 /\ copyLog[j].err = "none") =>
                    copyLog[j].decision = "Copy"

====
